---- MODULE Spec2Model ----
(***************************************************************************)
(* Model of manage_songs.py: reconciliation of Airtable song records with  *)
(* the markdown files under docs/ (tag/content mode, `update`) and the     *)
(* push of local lyrics back to Airtable (lyrics mode, `sync-lyrics`).     *)
(*                                                                         *)
(* Text is modelled as a sequence of one-character strings, so that        *)
(* strip, rstrip, splitlines and join are computed as Python computes      *)
(* them.  Tags are small naturals standing for strings in sorted order.    *)
(***************************************************************************)
EXTENDS Integers, Sequences, FiniteSets, TLC

VARIABLES
    pc,                \* position of the running command
    files,             \* docs/: path -> document on disk, for the files there
    records,           \* the Airtable table: sequence of records
    fetched,           \* the batch returned by fetch_songs for this run
    idx,               \* number of fetched records already processed
    results,           \* the run's list of UpdateResult
    prev_results,      \* the results of the previous run
    run,               \* number of runs started
    item_writes,       \* frontmatter.dump calls made for the last item
    run_writes,        \* frontmatter.dump calls made in the current run
    records_to_update, \* lyrics mode: the planned payloads
    patches,           \* lyrics mode: groups PATCHed by the current run
    given,             \* pure-function harness: the input drawn
    norm_out,          \* pure-function harness: results of the applications
    tag_out            \* pure-function harness: result of update_song_tags

vars == <<pc, files, records, fetched, idx, results, prev_results, run,
          item_writes, run_writes, records_to_update, patches,
          given, norm_out, tag_out>>

----------------------------------------------------------------------------
(* Bounds of the model *)

\* longest content given to the normalisation harness
MaxLen == 4

\* characters of a text: a letter, a blank, and the line boundaries
Chars == {"a", " ", "\n", "\r"}

NoVal == "<none>"

\* all texts of length at most n
RECURSIVE TextsOfLen(_)
TextsOfLen(n) ==
    IF n = 0 THEN {<<>>}
    ELSE {Append(s, c) : s \in TextsOfLen(n - 1), c \in Chars}

Texts(n) == UNION {TextsOfLen(k) : k \in 0..n}

----------------------------------------------------------------------------
(* Python str operations *)

\* str.isspace for one character
IsSpace(c) == c \in {" ", "\n", "\r"}

\* str.rstrip()
RECURSIVE rstrip(_)
rstrip(s) ==
    IF s = <<>> THEN s
    ELSE IF IsSpace(s[Len(s)]) THEN rstrip(SubSeq(s, 1, Len(s) - 1))
    ELSE s

\* str.lstrip()
RECURSIVE lstrip(_)
lstrip(s) ==
    IF s = <<>> THEN s
    ELSE IF IsSpace(s[1]) THEN lstrip(Tail(s))
    ELSE s

\* str.strip()
strip(s) == lstrip(rstrip(s))

\* str.endswith('\n')
endswith_nl(s) == s # <<>> /\ s[Len(s)] = "\n"

\* index of the first line boundary of s, 0 when there is none
RECURSIVE FirstBoundary(_, _)
FirstBoundary(s, i) ==
    IF i > Len(s) THEN 0
    ELSE IF s[i] \in {"\n", "\r"} THEN i
    ELSE FirstBoundary(s, i + 1)

\* str.splitlines(): split at \n, \r and \r\n; no empty last line
RECURSIVE splitlines(_)
splitlines(s) ==
    IF s = <<>> THEN <<>>
    ELSE LET i == FirstBoundary(s, 1) IN
         IF i = 0 THEN <<s>>
         ELSE LET j == IF s[i] = "\r" /\ i < Len(s) /\ s[i + 1] = "\n"
                       THEN i + 1 ELSE i
              IN <<SubSeq(s, 1, i - 1)>> \o splitlines(SubSeq(s, j + 1, Len(s)))

\* "\n".join(lines)
RECURSIVE join_nl(_)
join_nl(lines) ==
    IF lines = <<>> THEN <<>>
    ELSE IF Len(lines) = 1 THEN lines[1]
    ELSE lines[1] \o <<"\n">> \o join_nl(Tail(lines))

----------------------------------------------------------------------------
(* SongFileManager.normalize_content_spacing: the line rule *)

\* line.rstrip() + '  ' if line.rstrip() else ''
normalized_line(line) ==
    IF rstrip(line) # <<>> THEN rstrip(line) \o <<" ", " ">> ELSE <<>>

\* the list normalized_lines built from lines
normalized_lines(lines) ==
    [k \in 1..Len(lines) |->
        IF k < Len(lines) THEN normalized_line(lines[k]) ELSE rstrip(lines[k])]

\* a slip in the line rule: the last line gets the two blanks as well
new_content_marks_last(original_content) ==
    IF original_content = <<>> THEN original_content
    ELSE LET lines == splitlines(original_content) IN
         IF lines = <<>> THEN original_content
         ELSE LET joined == join_nl([k \in 1..Len(lines) |->
                                        normalized_line(lines[k])])
              IN IF endswith_nl(original_content)
                 THEN joined \o <<"\n">> ELSE joined

\* the text normalize_content_spacing leaves as the content: new_content, or
\* original_content itself on the early returns
new_content(original_content) ==
    IF original_content = <<>> THEN original_content
    ELSE LET lines == splitlines(original_content) IN
         IF lines = <<>> THEN original_content
         ELSE LET joined == join_nl(normalized_lines(lines)) IN
              IF endswith_nl(original_content) THEN joined \o <<"\n">> ELSE joined

----------------------------------------------------------------------------
(* UpdateStatus, UpdateResult, SongData *)

SUCCESS == "green"
UPDATED == "yellow"
FAILED == "red"
\* NOT_FOUND has the value of FAILED: in the Enum it is an alias of FAILED
NOT_FOUND == "red"

UpdateResult(status, message, title) ==
    [status |-> status, message |-> message, title |-> title]

\* the tags, written 1, 2, ... in the order sorted() gives their names
MaxTag == 2

Tags == 1..MaxTag

TagName(t) == <<"alto", "bass", "carol", "duet", "entry">>[t]

\* set(list)
ToSet(list) == {list[k] : k \in 1..Len(list)}

\* sorted(set)
RECURSIVE sorted(_)
sorted(S) ==
    IF S = {} THEN <<>>
    ELSE LET m == CHOOSE x \in S : \A y \in S : x <= y
         IN <<m>> \o sorted(S \ {m})

\* sep.join(parts) for a list of strings
RECURSIVE join(_, _)
join(sep, parts) ==
    IF parts = <<>> THEN ""
    ELSE IF Len(parts) = 1 THEN parts[1]
    ELSE parts[1] \o sep \o join(sep, Tail(parts))

\* dict.get(key, default)
get(dict, key, default) == IF key \in DOMAIN dict THEN dict[key] ELSE default

None == [none |-> TRUE]

IsNone(x) == "none" \in DOMAIN x

\* SongData.all_tags
all_tags(song_data) ==
    ToSet(song_data.sung_as) \cup ToSet(song_data.occasion)
        \cup ToSet(song_data.song_type)

\* SongDataParser.parse_record
parse_record(record) ==
    LET fields == get(record, "fields", <<>>) IN
    IF "title" \notin DOMAIN fields THEN None
    ELSE [title |-> fields["title"],
          language |-> get(fields, "language", "English"),
          sung_as |-> get(fields, "Sung as", <<>>),
          occasion |-> get(fields, "Ocassion", <<>>),
          song_type |-> get(fields, "Type", <<>>)]

----------------------------------------------------------------------------
(* docs/ and python-frontmatter *)

\* str.lower() on the languages of the model
lower(language) ==
    CASE language = "English" -> "english"
      [] language = "Tamil" -> "tamil"
      [] OTHER -> language

\* the path docs/<language.lower()>/<title>.md
FilePath(title, language) == lower(language) \o "/" \o title \o ".md"

\* SongFileManager.get_song_file_path: the path if the file exists, else
\* None (written NoVal)
get_song_file_path(fs, title, language) ==
    IF FilePath(title, language) \in DOMAIN fs
    THEN FilePath(title, language) ELSE NoVal

\* frontmatter.load of a parsable file: the header's tags, and the body
\* with surrounding whitespace stripped (python-frontmatter returns
\* content.strip())
load(doc) == [tags |-> doc.tags, content |-> strip(doc.content)]

\* frontmatter.dump(post, file_path): header and content rewritten together
dump(fs, file_path, post) ==
    [fs EXCEPT ![file_path] =
        [tags |-> post.tags, content |-> post.content, mode |-> "ok"]]

\* what a SongFileManager method hands back: whether it raised
\* FileOperationError, its (bool, str) tuple, the files and the dump calls
Outcome(raised, changed, message, fs, writes) ==
    [raised |-> raised, changed |-> changed, message |-> message,
     files |-> fs, writes |-> writes]

\* SongFileManager.read_song_lyrics: [raised, lyrics], lyrics None or a text
read_song_lyrics(fs, file_path) ==
    IF fs[file_path].mode = "unparsable"
    THEN [raised |-> TRUE, lyrics |-> None]
    ELSE LET post == load(fs[file_path]) IN
         [raised |-> FALSE,
          lyrics |-> IF post.content # <<>>
                     THEN [text |-> strip(post.content)] ELSE None]

\* added_tags = new_tags - existing_tags
added(new_tags, existing_tags) == new_tags \ existing_tags

\* a slip in the difference: the tags dropped are taken for the tags kept
removed_swapped(new_tags, existing_tags) == existing_tags \cap new_tags

\* removed_tags = existing_tags - new_tags
removed(new_tags, existing_tags) == existing_tags \ new_tags

\* SongFileManager.update_song_tags
update_song_tags(fs, file_path, new_tags) ==
    IF fs[file_path].mode = "unparsable"
    THEN Outcome(TRUE, FALSE, "Failed to update tags: parse error", fs, 0)
    ELSE LET post == load(fs[file_path])
             existing_tags == ToSet(post.tags)
             added_tags == added(new_tags, existing_tags)
             removed_tags == removed(new_tags, existing_tags)
             tag_messages ==
                 (IF added_tags # {}
                  THEN <<"Added: " \o
                         join(", ", [k \in 1..Cardinality(added_tags) |->
                                        TagName(sorted(added_tags)[k])])>>
                  ELSE <<>>)
                 \o
                 (IF removed_tags # {}
                  THEN <<"Removed: " \o
                         join(", ", [k \in 1..Cardinality(removed_tags) |->
                                        TagName(sorted(removed_tags)[k])])>>
                  ELSE <<>>)
         IN IF added_tags = {} /\ removed_tags = {}
            THEN Outcome(FALSE, FALSE, "", fs, 0)
            ELSE IF fs[file_path].mode = "readonly"
            THEN Outcome(TRUE, FALSE, "Failed to update tags: write error", fs, 0)
            ELSE Outcome(FALSE, TRUE, join(" | ", tag_messages),
                         dump(fs, file_path,
                              [post EXCEPT !.tags = sorted(new_tags)]), 1)

\* a slip in the order of the statements: the post is dumped before the
\* comparison with the original content
normalize_content_spacing_dump_first(fs, file_path) ==
    IF fs[file_path].mode = "unparsable"
    THEN Outcome(TRUE, FALSE, "Failed to normalize content: parse error", fs, 0)
    ELSE LET post == load(fs[file_path])
             original_content == post.content
         IN IF fs[file_path].mode = "readonly"
            THEN Outcome(TRUE, FALSE,
                         "Failed to normalize content: write error", fs, 0)
            ELSE IF original_content = new_content(original_content)
            THEN Outcome(FALSE, FALSE, "",
                         dump(fs, file_path,
                              [post EXCEPT !.content =
                                  new_content(original_content)]), 1)
            ELSE Outcome(FALSE, TRUE, "Updated content spacing",
                         dump(fs, file_path,
                              [post EXCEPT !.content =
                                  new_content(original_content)]), 1)

\* SongFileManager.normalize_content_spacing
normalize_content_spacing(fs, file_path) ==
    IF fs[file_path].mode = "unparsable"
    THEN Outcome(TRUE, FALSE, "Failed to normalize content: parse error", fs, 0)
    ELSE LET post == load(fs[file_path])
             original_content == post.content
         IN IF original_content = new_content(original_content)
            THEN Outcome(FALSE, FALSE, "", fs, 0)
            ELSE IF fs[file_path].mode = "readonly"
            THEN Outcome(TRUE, FALSE,
                         "Failed to normalize content: write error", fs, 0)
            ELSE Outcome(FALSE, TRUE, "Updated content spacing",
                         dump(fs, file_path,
                              [post EXCEPT !.content =
                                  new_content(original_content)]), 1)

\* the try block of update_song_file: [result, files, writes, raised], with
\* raised when one of the two calls raised and result then holding str(e)
update_song_file_try(fs, file_path, song_data) ==
    LET t == update_song_tags(fs, file_path, all_tags(song_data)) IN
    IF t.raised
    THEN [result |-> UpdateResult(FAILED, t.message, song_data.title),
          files |-> t.files, writes |-> t.writes, raised |-> TRUE]
    ELSE LET c == normalize_content_spacing(t.files, file_path)
             messages == SelectSeq(<<t.message, c.message>>,
                                   LAMBDA msg : msg # "")
         IN IF c.raised
            THEN [result |-> UpdateResult(FAILED, c.message, song_data.title),
                  files |-> c.files, writes |-> t.writes + c.writes,
                  raised |-> TRUE]
            ELSE [result |->
                      IF t.changed \/ c.changed
                      THEN UpdateResult(UPDATED, join(" | ", messages),
                                        song_data.title)
                      ELSE UpdateResult(SUCCESS, "No update needed",
                                        song_data.title),
                  files |-> c.files, writes |-> t.writes + c.writes,
                  raised |-> FALSE]

\* update_song_file without its except clause: the exception leaves it
update_song_file_uncaught(fs, file_path, song_data) ==
    update_song_file_try(fs, file_path, song_data)

\* SongFileManager.update_song_file: the try block, and the except clause
\* that turns every exception into a FAILED result
update_song_file(fs, file_path, song_data) ==
    [update_song_file_try(fs, file_path, song_data) EXCEPT !.raised = FALSE]

\* a slip in the comparison: the remote lyrics are compared untrimmed
up_to_date_untrimmed(existing_lyrics, lyrics) ==
    existing_lyrics # <<>> /\ existing_lyrics = lyrics

\* existing_lyrics and existing_lyrics.strip() == lyrics
up_to_date(existing_lyrics, lyrics) ==
    existing_lyrics # <<>> /\ strip(existing_lyrics) = lyrics

\* the dict with the tag field name -> list when the list is not empty
tag_field(name, list) == IF list # <<>> THEN (name :> list) ELSE <<>>

\* SongUpdater._process_single_lyrics_sync: [result, update_record]
process_single_lyrics_sync(fs, song_data, original_record) ==
    LET file_path == get_song_file_path(fs, song_data.title, song_data.language)
    IN
    IF file_path = NoVal
    THEN [result |-> UpdateResult(NOT_FOUND, "File not found", song_data.title),
          update_record |-> None]
    ELSE LET read == read_song_lyrics(fs, file_path) IN
         IF read.raised
         THEN [result |-> UpdateResult(FAILED, "Failed to read lyrics",
                                       song_data.title),
               update_record |-> None]
         ELSE IF IsNone(read.lyrics)
         THEN [result |-> UpdateResult(FAILED, "No lyrics content found",
                                       song_data.title),
               update_record |-> None]
         ELSE LET lyrics == read.lyrics.text
                  existing_lyrics ==
                      get(get(original_record, "fields", <<>>), "lyrics", <<>>)
              IN IF up_to_date(existing_lyrics, lyrics)
                 THEN [result |-> UpdateResult(SUCCESS, "Lyrics already up to date",
                                               song_data.title),
                       update_record |-> None]
                 ELSE [result |->
                           UpdateResult(UPDATED,
                                        IF existing_lyrics = <<>>
                                        THEN "Lyrics will be synced"
                                        ELSE "Lyrics will be updated",
                                        song_data.title),
                       update_record |->
                           [id |-> original_record["id"],
                            fields |-> ("Lyrics" :> lyrics)
                                @@ tag_field("Sung as", song_data.sung_as)
                                @@ tag_field("Ocassion", song_data.occasion)
                                @@ tag_field("Type", song_data.song_type)]]

----------------------------------------------------------------------------
(* AirtableClient.update_records *)

batch_size == 10

Min(a, b) == IF a < b THEN a ELSE b

\* a slip in the slice: each group runs one payload into the next
batch_overlapping(recs, i) == SubSeq(recs, i + 1, Min(i + batch_size + 1, Len(recs)))

\* records[i:i + batch_size]
batch(recs, i) == SubSeq(recs, i + 1, Min(i + batch_size, Len(recs)))

\* the table after Airtable applied one PATCH: each payload's fields are
\* set on the record with its id, the other fields of the record are kept
patched(table, group) ==
    [k \in 1..Len(table) |->
        IF \E g \in 1..Len(group) : group[g].id = table[k].id
        THEN LET g == CHOOSE g \in 1..Len(group) : group[g].id = table[k].id
             IN [table[k] EXCEPT !.fields = group[g].fields @@ @]
        ELSE table[k]]

\* a slip in the loop after a failed update: every result is marked failed
mark_failed_all(res) ==
    [k \in 1..Len(res) |->
        UpdateResult(FAILED, "Failed to sync to Airtable", res[k].title)]

\* _sync_lyrics_process, the except clause: the results that were UPDATED
\* become FAILED
mark_failed(res) ==
    [k \in 1..Len(res) |->
        IF res[k].status = UPDATED
        THEN UpdateResult(FAILED, "Failed to sync to Airtable", res[k].title)
        ELSE res[k]]

\* SongUpdater._process_single_song: [result, files, writes, raised]
process_single_song(fs, song_data) ==
    LET file_path == get_song_file_path(fs, song_data.title, song_data.language)
    IN IF file_path = NoVal
       THEN [result |-> UpdateResult(NOT_FOUND, "File not found", song_data.title),
             files |-> fs, writes |-> 0, raised |-> FALSE]
       ELSE update_song_file(fs, file_path, song_data)

----------------------------------------------------------------------------
(* Values of the variables a specification does not use *)

Idle ==
    /\ files = <<>>
    /\ records = <<>>
    /\ fetched = <<>>
    /\ idx = 0
    /\ results = <<>>
    /\ prev_results = <<>>
    /\ run = 0
    /\ item_writes = 0
    /\ run_writes = 0
    /\ records_to_update = <<>>
    /\ patches = <<>>

----------------------------------------------------------------------------
(* Specification SpecNormalize: the line rule applied to any text, twice *)

InitNormalize ==
    /\ pc = "given"
    /\ given \in Texts(MaxLen)
    /\ norm_out = <<>>
    /\ tag_out = <<>>
    /\ Idle

Normalize ==
    /\ pc = "given"
    /\ norm_out' = <<new_content(given)>>
    /\ pc' = "once"
    /\ UNCHANGED <<files, records, fetched, idx, results, prev_results, run,
                   item_writes, run_writes, records_to_update, patches,
                   given, tag_out>>

NormalizeAgain ==
    /\ pc = "once"
    /\ norm_out' = Append(norm_out, new_content(norm_out[1]))
    /\ pc' = "twice"
    /\ UNCHANGED <<files, records, fetched, idx, results, prev_results, run,
                   item_writes, run_writes, records_to_update, patches,
                   given, tag_out>>

NextNormalize == Normalize \/ NormalizeAgain

SpecNormalize == InitNormalize /\ [][NextNormalize]_vars

----------------------------------------------------------------------------
(* Specification SpecTags: update_song_tags on one document and one record *)

\* longest tag list of the document given to the tag harness
MaxTagLen == 2

RECURSIVE TagListsOfLen(_)
TagListsOfLen(n) ==
    IF n = 0 THEN {<<>>}
    ELSE {Append(s, t) : s \in TagListsOfLen(n - 1), t \in Tags}

TagLists(n) == UNION {TagListsOfLen(k) : k \in 0..n}

PathA == "english/A.md"
PathB == "english/B.md"

\* the function with the fields of f that are not left out (written <<0>>)
Present(f) == [k \in {k \in DOMAIN f : f[k] # <<0>>} |-> f[k]]

\* Airtable records titled A whose three tag fields are absent or hold a tag
TaggedFields ==
    {("title" :> "A") @@ Present(f) :
        f \in [{"Sung as", "Ocassion", "Type"} ->
                  {<<0>>} \cup {<<t>> : t \in Tags}]}

InitTags ==
    /\ pc = "given"
    /\ given \in TagLists(MaxTagLen)
    /\ files = (PathA :> [tags |-> given, content |-> <<"a">>, mode |-> "ok"])
    /\ \E f \in TaggedFields : records = <<[id |-> 1, fields |-> f]>>
    /\ fetched = <<>>
    /\ idx = 0
    /\ results = <<>>
    /\ prev_results = <<>>
    /\ run = 0
    /\ item_writes = 0
    /\ run_writes = 0
    /\ records_to_update = <<>>
    /\ patches = <<>>
    /\ norm_out = <<>>
    /\ tag_out = <<>>

UpdateSongTags ==
    /\ pc = "given"
    /\ LET song_data == parse_record(records[1])
           o == update_song_tags(files, PathA, all_tags(song_data))
       IN /\ files' = o.files
          /\ tag_out' = <<o.changed, o.message>>
          /\ item_writes' = o.writes
    /\ pc' = "tagged"
    /\ UNCHANGED <<records, fetched, idx, results, prev_results, run,
                   run_writes, records_to_update, patches, given, norm_out>>

NextTags == UpdateSongTags

SpecTags == InitTags /\ [][NextTags]_vars

\* the tag sets of the harness: A the document's, B the record's allTags
TagsA == ToSet(given)
TagsB ==
    LET f == records[1].fields IN
    UNION {ToSet(f[k]) : k \in DOMAIN f \ {"title"}}

\* "Added: ..." / "Removed: ..." for two sets of tags, joined by " | "
TagNames(S) == join(", ", [k \in 1..Cardinality(S) |-> TagName(sorted(S)[k])])
TagReport(add, rem) ==
    join(" | ", (IF add # {} THEN <<"Added: " \o TagNames(add)>> ELSE <<>>)
                \o (IF rem # {} THEN <<"Removed: " \o TagNames(rem)>> ELSE <<>>))

\* C4: update_song_tags reports added = B - A and removed = A - B, reports a
\* change exactly when one of them is non-empty, then leaves the document
\* with the tags B, and otherwise writes nothing
C4_TagDifferences ==
    pc = "tagged" =>
        /\ tag_out[1] <=> (TagsB \ TagsA # {} \/ TagsA \ TagsB # {})
        /\ tag_out[2] = TagReport(TagsB \ TagsA, TagsA \ TagsB)
        /\ tag_out[1] => /\ files[PathA].tags = sorted(TagsB)
                         /\ item_writes = 1
        /\ ~tag_out[1] => /\ files[PathA].tags = given
                          /\ item_writes = 0

\* a document and a record whose tags differ both ways have been reconciled
C4_Witness ==
    /\ pc = "tagged"
    /\ TagsB \ TagsA # {}
    /\ TagsA \ TagsB # {}
    /\ tag_out[1]

----------------------------------------------------------------------------
(* Specification SpecUpdate: the `update` command (tag/content mode), run  *)
(* MaxRuns times over the same table                                       *)

\* runs of a command in one behaviour
MaxRuns == 2

\* records of the table in tag/content mode
MaxRecords == 2

\* bodies of the documents on disk: empty, one line, two lines without and
\* with the hard-break blanks, a blank last line, surrounding whitespace
DocContents ==
    {<<>>, <<"a">>, <<"a", "\n", "a">>, <<"a", " ", " ", "\n", "a">>,
     <<"a", "\n", " ">>, <<" ", "a", " ", "\n", "a", "\n">>}

\* tag lists found in headers: none, one tag, two tags out of order
DocTagLists == {<<>>, <<1>>, <<2, 1>>}

Doc(tags, content, mode) == [tags |-> tags, content |-> content, mode |-> mode]

\* docs/english/A.md: a readable document, one that does not parse, or one
\* that cannot be written
DocsA ==
    {Doc(t, c, "ok") : t \in DocTagLists, c \in DocContents}
    \cup {Doc(<<1>>, <<"a", "\n", "a">>, "readonly"),
          Doc(<<1>>, <<"a">>, "readonly"),
          Doc(<<>>, <<"a">>, "unparsable")}

\* docs/english/B.md
DocsB ==
    {Doc(<<>>, <<"a">>, "ok"), Doc(<<2>>, <<"a", "\n", "a">>, "readonly"),
     Doc(<<>>, <<"a">>, "unparsable")}

\* the states of docs/: each of the two files present or not
FileSystems ==
    {<<>>} \cup {(PathA :> a) : a \in DocsA} \cup {(PathB :> b) : b \in DocsB}
    \cup {(PathA :> a) @@ (PathB :> b) : a \in DocsA, b \in DocsB}

\* the fields of the records of the table: one without a title, two for
\* docs/english/A.md that differ in tags, one for B, one in another language
FieldPool ==
    {("language" :> "English"),
     ("title" :> "A") @@ ("Sung as" :> <<1>>),
     ("title" :> "A") @@ ("language" :> "English") @@ ("Sung as" :> <<1>>)
        @@ ("Type" :> <<2>>),
     ("title" :> "B") @@ ("Ocassion" :> <<2>>),
     ("title" :> "A") @@ ("language" :> "Tamil")}

\* tables of n records, the record at position k having id k
RECURSIVE TablesOfLen(_)
TablesOfLen(n) ==
    IF n = 0 THEN {<<>>}
    ELSE {Append(t, [id |-> n, fields |-> f]) :
            t \in TablesOfLen(n - 1), f \in FieldPool}

Tables(n) == UNION {TablesOfLen(k) : k \in 0..n}

InitUpdate ==
    /\ pc = "idle"
    /\ files \in FileSystems
    /\ records \in Tables(MaxRecords)
    /\ fetched = <<>>
    /\ idx = 0
    /\ results = <<>>
    /\ prev_results = <<>>
    /\ run = 0
    /\ item_writes = 0
    /\ run_writes = 0
    /\ records_to_update = <<>>
    /\ patches = <<>>
    /\ given = <<>>
    /\ norm_out = <<>>
    /\ tag_out = <<>>

\* update_songs, up to the call of _process_songs: fetch_songs returned
FetchSongs ==
    /\ pc = "idle"
    /\ run < MaxRuns
    /\ run' = run + 1
    /\ fetched' = records
    /\ prev_results' = results
    /\ results' = <<>>
    /\ idx' = 0
    /\ item_writes' = 0
    /\ run_writes' = 0
    /\ pc' = "processing"
    /\ UNCHANGED <<files, records, records_to_update, patches,
                   given, norm_out, tag_out>>

\* update_songs when fetch_songs raises AirtableAPIError: typer.Exit(1)
FetchFails ==
    /\ pc = "idle"
    /\ run < MaxRuns
    /\ run' = run + 1
    /\ pc' = "exit"
    /\ UNCHANGED <<files, records, fetched, idx, results, prev_results,
                   item_writes, run_writes, records_to_update, patches,
                   given, norm_out, tag_out>>

\* one turn of the loop of _process_songs
ProcessSong ==
    /\ pc = "processing"
    /\ idx < Len(fetched)
    /\ LET song_data == parse_record(fetched[idx + 1]) IN
       IF IsNone(song_data)
       THEN /\ item_writes' = 0
            /\ UNCHANGED <<files, results, run_writes, pc>>
       ELSE LET r == process_single_song(files, song_data) IN
            /\ files' = r.files
            /\ item_writes' = r.writes
            /\ run_writes' = run_writes + r.writes
            /\ IF r.raised
               THEN /\ pc' = "crashed"
                    /\ UNCHANGED results
               ELSE /\ results' = Append(results, r.result)
                    /\ UNCHANGED pc
    /\ idx' = idx + 1
    /\ UNCHANGED <<records, fetched, prev_results, run, records_to_update,
                   patches, given, norm_out, tag_out>>

\* _process_songs returns and _display_results prints the table
DisplayResults ==
    /\ pc = "processing"
    /\ idx = Len(fetched)
    /\ pc' = "idle"
    /\ UNCHANGED <<files, records, fetched, idx, results, prev_results, run,
                   item_writes, run_writes, records_to_update, patches,
                   given, norm_out, tag_out>>

NextUpdate == FetchSongs \/ FetchFails \/ ProcessSong \/ DisplayResults

SpecUpdate == InitUpdate /\ [][NextUpdate]_vars

\* the records of a batch that parse_record accepts, in order
Titled(recs) == SelectSeq(recs, LAMBDA rec : ~IsNone(parse_record(rec)))

\* the document a record resolves to
PathOf(rec) ==
    FilePath(parse_record(rec).title, parse_record(rec).language)

\* no two records of the batch resolve to one document with different tags
NoConflict(recs) ==
    \A i, j \in 1..Len(Titled(recs)) :
        PathOf(Titled(recs)[i]) = PathOf(Titled(recs)[j]) =>
            all_tags(parse_record(Titled(recs)[i]))
                = all_tags(parse_record(Titled(recs)[j]))

\* every item Updated or Unchanged in the previous run is Unchanged now
SettledItemsUnchanged ==
    /\ Len(results) = Len(prev_results)
    /\ \A k \in 1..Len(prev_results) :
          prev_results[k].status \in {UPDATED, SUCCESS} =>
              results[k] = UpdateResult(SUCCESS, "No update needed",
                                        prev_results[k].title)

\* C1 as stated: for any batch, the second of two runs in succession finds
\* every item of the first run that was Updated or Unchanged Unchanged, and
\* writes no document
C1_SecondRunUnchanged ==
    (pc = "idle" /\ run >= 2) => (SettledItemsUnchanged /\ run_writes = 0)

\* C1 amended: the same, for batches in which the records that resolve to
\* one document carry the same tags
C1_SecondRunUnchangedNoConflict ==
    (pc = "idle" /\ run >= 2 /\ NoConflict(fetched)) =>
        (SettledItemsUnchanged /\ run_writes = 0)

\* a second run has ended Unchanged on an item the first run updated
C1_Witness ==
    /\ pc = "idle"
    /\ run = 2
    /\ NoConflict(fetched)
    /\ \E k \in 1..Len(results) :
          /\ prev_results[k].status = UPDATED
          /\ results[k].status = SUCCESS

\* the record the loop of _process_songs handled last had a title
LastItemTitled ==
    /\ pc \in {"processing", "idle"}
    /\ idx > 0
    /\ ~IsNone(parse_record(fetched[idx]))

LastResult == results[Len(results)]

\* the messages update_song_tags can return with a change
TagMessages ==
    {TagReport(add, rem) : add \in SUBSET Tags, rem \in SUBSET Tags} \ {""}

C9_FailureIsolation ==
    /\ pc # "crashed"
    /\ pc \in {"processing", "idle"} /\ run >= 1 =>
          /\ Len(results) = Len(Titled(SubSeq(fetched, 1, idx)))
          /\ \A k \in 1..Len(results) :
                LET rec == Titled(fetched)[k] IN
                /\ results[k].title = rec.fields["title"]
                /\ PathOf(rec) \notin DOMAIN files <=>
                      (results[k].status = NOT_FOUND
                          /\ results[k].message = "File not found")
          /\ (LastItemTitled /\ LastResult.message = "File not found")
                => item_writes = 0
    /\ (pc = "idle" /\ run >= 1) => idx = Len(fetched)

\* a run has ended with a failed item followed by an updated one
C9_Witness ==
    /\ pc = "idle"
    /\ Len(results) = 2
    /\ results[1].status = FAILED
    /\ results[1].message # "File not found"
    /\ results[2].status = UPDATED

----------------------------------------------------------------------------
(* Specification SpecSync: the `sync-lyrics` command (lyrics mode), run    *)
(* MaxRuns times, each run fetching the table the run before left          *)

\* longest lyrics text, remote or local, of the one-record tables
MaxLyricsLen == 2

\* most records with lyrics to push in the many-record tables
MaxUpdates == 25

PathE == "english/E.md"
PathU == "english/U.md"

\* one record titled A: remote lyrics absent or any text, the field Lyrics
\* absent or set, and docs/english/A.md absent, unparsable or with any body
InitSyncOne ==
    /\ \E lyr \in {<<"-">>} \cup Texts(MaxLyricsLen),
          Lyr \in {<<"-">>, <<"a">>} :
          records = <<[id |-> 1,
                       fields |-> ("title" :> "A") @@ ("Sung as" :> <<1>>)
                           @@ (IF lyr = <<"-">> THEN <<>> ELSE ("lyrics" :> lyr))
                           @@ (IF Lyr = <<"-">> THEN <<>> ELSE ("Lyrics" :> Lyr))]>>
    /\ files \in {<<>>, (PathA :> Doc(<<>>, <<"a">>, "unparsable"))}
                 \cup {(PathA :> Doc(<<1>>, c, "ok")) : c \in Texts(MaxLyricsLen)}

\* the fields of the records that need no push: no title, no document, no
\* lyrics in the document, an unparsable document, remote lyrics up to date
SpecialFields ==
    {("language" :> "English"),
     ("title" :> "B"),
     ("title" :> "E") @@ ("Type" :> <<2>>),
     ("title" :> "U"),
     ("title" :> "A") @@ ("lyrics" :> <<" ", "a", "\n">>)}

\* the fields of a record whose document has lyrics the table lacks
StaleFields == ("title" :> "A") @@ ("Sung as" :> <<1>>)

\* n records to push, with at most one record of another kind among them
InitSyncMany ==
    /\ \E n \in 0..MaxUpdates :
          \/ records = [k \in 1..n |-> [id |-> k, fields |-> StaleFields]]
          \/ \E p \in 1..(n + 1), f \in SpecialFields :
                records = [k \in 1..(n + 1) |->
                              [id |-> k,
                               fields |-> IF k = p THEN f ELSE StaleFields]]
    /\ files = (PathA :> Doc(<<1>>, <<"a">>, "ok"))
               @@ (PathE :> Doc(<<>>, <<" ">>, "ok"))
               @@ (PathU :> Doc(<<>>, <<"a">>, "unparsable"))

InitSync ==
    /\ pc = "idle"
    /\ (InitSyncOne \/ InitSyncMany)
    /\ fetched = <<>>
    /\ idx = 0
    /\ results = <<>>
    /\ prev_results = <<>>
    /\ run = 0
    /\ item_writes = 0
    /\ run_writes = 0
    /\ records_to_update = <<>>
    /\ patches = <<>>
    /\ given = <<>>
    /\ norm_out = <<>>
    /\ tag_out = <<>>

\* the command is not running: not started, or returned from a run
Returned == pc \in {"idle", "synced", "sync_failed"}

\* sync_lyrics_to_airtable, up to the call of _sync_lyrics_process
FetchLyrics ==
    /\ Returned
    /\ run < MaxRuns
    /\ run' = run + 1
    /\ fetched' = records
    /\ prev_results' = results
    /\ results' = <<>>
    /\ records_to_update' = <<>>
    /\ patches' = <<>>
    /\ idx' = 0
    /\ pc' = "planning"
    /\ UNCHANGED <<files, records, item_writes, run_writes,
                   given, norm_out, tag_out>>

\* sync_lyrics_to_airtable when fetch_songs raises: typer.Exit(1)
FetchLyricsFails ==
    /\ Returned
    /\ run < MaxRuns
    /\ run' = run + 1
    /\ pc' = "exit"
    /\ UNCHANGED <<files, records, fetched, idx, results, prev_results,
                   item_writes, run_writes, records_to_update, patches,
                   given, norm_out, tag_out>>

\* one turn of the first loop of _sync_lyrics_process
PlanLyrics ==
    /\ pc = "planning"
    /\ idx < Len(fetched)
    /\ LET song_data == parse_record(fetched[idx + 1]) IN
       IF IsNone(song_data)
       THEN UNCHANGED <<results, records_to_update>>
       ELSE LET r == process_single_lyrics_sync(files, song_data,
                                                fetched[idx + 1])
            IN /\ results' = Append(results, r.result)
               /\ records_to_update' =
                     IF IsNone(r.update_record) THEN records_to_update
                     ELSE Append(records_to_update, r.update_record)
    /\ idx' = idx + 1
    /\ UNCHANGED <<pc, files, records, fetched, prev_results, run, item_writes,
                   run_writes, patches, given, norm_out, tag_out>>

\* the first loop of _sync_lyrics_process has ended
EndPlanning ==
    /\ pc = "planning"
    /\ idx = Len(fetched)
    /\ pc' = "updating"
    /\ UNCHANGED <<files, records, fetched, idx, results, prev_results, run,
                   item_writes, run_writes, records_to_update, patches,
                   given, norm_out, tag_out>>

\* the index i of the loop of update_records: range(0, len(records), batch_size)
NextIndex == batch_size * Len(patches)

\* one turn of the loop of update_records: the PATCH is answered
PatchBatch ==
    /\ pc = "updating"
    /\ NextIndex < Len(records_to_update)
    /\ patches' = Append(patches, batch(records_to_update, NextIndex))
    /\ records' = patched(records, batch(records_to_update, NextIndex))
    /\ UNCHANGED <<pc, files, fetched, idx, results, prev_results, run,
                   item_writes, run_writes, records_to_update,
                   given, norm_out, tag_out>>

\* one turn of the loop of update_records: the PATCH raises RequestException,
\* update_records raises AirtableAPIError, _sync_lyrics_process marks the
\* pending results failed and returns
PatchFails ==
    /\ pc = "updating"
    /\ NextIndex < Len(records_to_update)
    /\ results' = mark_failed(results)
    /\ pc' = "sync_failed"
    /\ UNCHANGED <<files, records, fetched, idx, prev_results, run, item_writes,
                   run_writes, records_to_update, patches,
                   given, norm_out, tag_out>>

\* update_records returned, or there was nothing to update:
\* _sync_lyrics_process returns and the table of results is printed
DisplaySyncResults ==
    /\ pc = "updating"
    /\ NextIndex >= Len(records_to_update)
    /\ pc' = "synced"
    /\ UNCHANGED <<files, records, fetched, idx, results, prev_results, run,
                   item_writes, run_writes, records_to_update, patches,
                   given, norm_out, tag_out>>

NextSync ==
    \/ FetchLyrics
    \/ FetchLyricsFails
    \/ PlanLyrics
    \/ EndPlanning
    \/ PatchBatch
    \/ PatchFails
    \/ DisplaySyncResults

SpecSync == InitSync /\ [][NextSync]_vars

\* the concatenation of the groups PATCHed so far
RECURSIVE Flatten(_)
Flatten(groups) ==
    IF groups = <<>> THEN <<>> ELSE groups[1] \o Flatten(Tail(groups))

\* ceil(n / d)
CeilDiv(n, d) == (n + d - 1) \div d

\* the planner has passed the k-th titled record of the batch
Planned(k) == pc \in {"planning", "updating", "synced", "sync_failed"}
                  /\ k \in 1..Len(results)

\* the lyrics the document of a record holds, trimmed; <<>> when the
\* document is missing or does not parse
LocalLyrics(rec) ==
    IF PathOf(rec) \in DOMAIN files /\ files[PathOf(rec)].mode # "unparsable"
    THEN strip(files[PathOf(rec)].content) ELSE <<>>

\* the record's field lyrics, the one the up-to-date check reads
RemoteLyrics(rec) == get(rec.fields, "lyrics", <<>>)

\* the document of rec has lyrics, and the remote lyrics equal them once
\* both are trimmed
InSync(rec) ==
    /\ LocalLyrics(rec) # <<>>
    /\ strip(RemoteLyrics(rec)) = LocalLyrics(rec)

\* the ids of the planned payloads
Pending == {records_to_update[u].id : u \in 1..Len(records_to_update)}

\* C5: a record whose document has lyrics that equal the remote lyrics, both
\* trimmed, is Unchanged and has no payload among the planned updates: when
\* the planner has just passed it, and for every record once planning ended
C5_InSyncNeverUpdated ==
    /\ (pc = "planning" /\ idx > 0 /\ ~IsNone(parse_record(fetched[idx])))
          => (InSync(fetched[idx])
                 => /\ results[Len(results)] =
                          UpdateResult(SUCCESS, "Lyrics already up to date",
                                       fetched[idx].fields["title"])
                    /\ fetched[idx].id \notin Pending)
    /\ pc \in {"updating", "synced", "sync_failed"}
          => LET titled == Titled(fetched) IN
             \A k \in 1..Len(results) :
                InSync(titled[k])
                   => /\ results[k] =
                            UpdateResult(SUCCESS, "Lyrics already up to date",
                                         titled[k].fields["title"])
                      /\ titled[k].id \notin Pending

\* a record in sync only after trimming has been planned as Unchanged
C5_Witness ==
    \E k \in 1..Len(results) :
        /\ Planned(k)
        /\ LocalLyrics(Titled(fetched)[k]) # <<>>
        /\ RemoteLyrics(Titled(fetched)[k]) # LocalLyrics(Titled(fetched)[k])
        /\ strip(RemoteLyrics(Titled(fetched)[k]))
              = LocalLyrics(Titled(fetched)[k])
        /\ results[k].status = SUCCESS

\* C6: the groups PATCHed are, in order, the planned payloads cut every
\* batch_size: each group but the last has batch_size payloads, the last has
\* 1 to batch_size, none is sent twice, and a run whose groups all succeed
\* sends ceil(N / batch_size) groups that together are the planned list
C6_GroupsOfTen ==
    LET sent == Flatten(patches) IN
    /\ sent = SubSeq(records_to_update, 1, Len(sent))
    /\ \A g \in 1..Len(patches) :
          /\ Len(patches[g]) \in 1..batch_size
          /\ g < Len(patches) => Len(patches[g]) = batch_size
          /\ Len(patches[g]) < batch_size => Len(sent) = Len(records_to_update)
    /\ Cardinality({sent[i].id : i \in 1..Len(sent)}) = Len(sent)
    /\ pc = "synced" =>
          /\ Len(patches) = CeilDiv(Len(records_to_update), batch_size)
          /\ sent = records_to_update

\* 25 payloads have been sent in groups of 10, 10 and 5
C6_Witness ==
    /\ pc = "synced"
    /\ Len(records_to_update) = 25
    /\ Len(patches) = 3
    /\ Len(patches[1]) = 10
    /\ Len(patches[2]) = 10
    /\ Len(patches[3]) = 5

\* C7: when a group fails every Updated decision becomes Failed with the
\* message "Failed to sync to Airtable" and the others keep status and
\* message; when all groups succeed no decision changes
C7_AllOrNothing ==
    [][/\ (pc = "updating" /\ pc' = "sync_failed") =>
            /\ Len(results') = Len(results)
            /\ \A k \in 1..Len(results) :
                  IF results[k].status = UPDATED
                  THEN results'[k] =
                          UpdateResult(FAILED, "Failed to sync to Airtable",
                                       results[k].title)
                  ELSE results'[k] = results[k]
       /\ (pc = "updating" /\ pc' # "sync_failed") => results' = results
      ]_vars

\* the second group of a run failed: the decisions that were Updated are
\* Failed, and one that was Unchanged is still Unchanged
C7_Witness ==
    /\ pc = "sync_failed"
    /\ Len(patches) = 1
    /\ Len(records_to_update) > batch_size
    /\ \E k \in 1..Len(results) :
          results[k] = UpdateResult(SUCCESS, "Lyrics already up to date", "A")
    /\ \E k \in 1..Len(results) :
          results[k].message = "Failed to sync to Airtable"

\* C10: a record whose lyrics the previous run pushed with success is
\* Unchanged in the run that follows, and no payload is planned for it
C10_ConvergesAfterPush ==
    (pc \in {"updating", "synced", "sync_failed"} /\ run >= 2) =>
        LET titled == Titled(fetched)
            pending == {records_to_update[u].id :
                           u \in 1..Len(records_to_update)}
        IN \A k \in 1..Len(prev_results) :
              prev_results[k].status = UPDATED =>
                  /\ results[k].status = SUCCESS
                  /\ titled[k].id \notin pending

====
